---- MODULE Spec2Model ----
(***************************************************************************)
(* litserve: the request-routing engine of src/litserve/server.py.         *)
(*                                                                         *)
(* One gateway process runs the FastAPI handlers (predict, chat) on one    *)
(* asyncio event loop; worker replicas are separate OS processes running   *)
(* single_loop or batched_loop.  They share request_queue (a               *)
(* multiprocessing.Queue of uids) and request_buffer (a Manager().dict     *)
(* uid -> (payload, pipe_s)).  Replies travel over Pipe() pairs drawn from *)
(* LitServer.pipe_pool.                                                    *)
(***************************************************************************)
EXTENDS Integers, Sequences, FiniteSets, TLC

(* ------------------------------ bounds -------------------------------- *)
\* client-visible HTTP requests the gateway receives
MaxCalls == 2
\* largest n (completions) of one chat request
MaxN == 2
\* largest number of worker replicas (len(devices) * workers_per_device)
NumWorkers == 2
\* largest configured max_batch_size
MaxBatchSize == 2
\* LitServer.__init__: initial_pool_size = 100, scaled down
initial_pool_size == 2
\* LitServer.__init__: self.max_pool_size = 1000, scaled down
max_pool_size == 3
\* Pipe() pairs a direct caller of new_pipe/dispose_pipe constructs (PoolSpec)
MaxTestPipes == 3
\* largest finite float (sys.float_info.max), scaled down: x**2 above it raises
\* OverflowError
FloatMax == 30

Calls == 1..MaxCalls
Workers == 1..NumWorkers
MaxUids == MaxCalls * MaxN
Uids == 1..MaxUids
Pipes == 1..(initial_pool_size + MaxUids + MaxTestPipes)

VARIABLES
    max_batch_size,   \* app.max_batch_size, fixed at construction
    replicas,         \* len(app.devices * app.workers_per_device): processes started
    lit_api,          \* which user API the server was built with
    pipe_pool,        \* LitServer.pipe_pool: a list of pairs, each named by its id
    nextPipe,         \* id the next Pipe() call returns
    nextUid,          \* value the next uuid.uuid4() call returns
    request_buffer,   \* app.request_buffer: uid -> [x_enc, pipe_s]
    request_queue,    \* app.request_queue: FIFO of uids
    channel,          \* per pair: the messages sent and not yet received
    closed,           \* pairs whose receiving end the gateway has dropped
    calls,            \* per HTTP request: the handler coroutine's locals and position
    loopOwner,        \* the call whose code the event loop is running (0: loop idle)
    workers,          \* per replica: the loop's locals and position
    took,             \* history: per uid, who received its entry from request_buffer.pop
    missed,           \* history: per uid, who popped it and got KeyError
    nSends,           \* history: per pair, the pipe_s.send calls made on it
    nStages,          \* history: per uid, the decode_request calls on its payload
    log,              \* history: per replica, the calls its process made, in order
    testHeld,         \* PoolSpec: pairs held by the direct caller
    lastOp            \* PoolSpec: the last direct pool operation and what it saw

vars == <<max_batch_size, replicas, lit_api, pipe_pool, nextPipe, nextUid, request_buffer,
          request_queue, channel, closed, calls, loopOwner, workers, took, missed,
          nSends, nStages, log, testHeld, lastOp>>

poolVars == <<pipe_pool, nextPipe>>
sharedVars == <<request_buffer, request_queue>>
histVars == <<took, missed, nSends, nStages, log>>
testVars == <<testHeld, lastOp>>
configVars == <<max_batch_size, replicas, lit_api>>

Range(s) == {s[i] : i \in DOMAIN s}

(* ---------------------------- user stages ----------------------------- *)
\* SimpleLitAPI.decode_request: request["input"]; KeyError without that key
decode_raises(request) == "input" \notin DOMAIN request

decode_request(request) == request.input

\* SimpleLitAPI.predict: x**2 on a float raises OverflowError when the result
\* is out of range
predict_raises(x) == x * x > FloatMax

\* SimpleLitAPI.predict: self.model(x) with model = lambda x: x**2
predict(x) == x * x

\* SimpleLitAPI.encode_response
encode_response(output) == [output |-> output]

\* LitAPI.batch: the decoded inputs as one batch, in order
batch(inputs) == inputs

\* OpenAILitAPI.decode_request: the request itself
openai_decode_request(request) == request

\* OpenAILitAPI.predict
openai_predict(x) == "This is a generated output"

\* OpenAILitAPI.encode_response
openai_encode_response(output) == [text |-> output]

\* faulty variant: every output is computed from the first input of the batch
predict_batch_first(api, x) ==
    [i \in DOMAIN x |-> IF api = "simple" THEN predict(x[1]) ELSE openai_predict(x[1])]

\* lit_api.predict on a batch: the model applied elementwise
predict_batch(api, x) ==
    [i \in DOMAIN x |-> IF api = "simple" THEN predict(x[i]) ELSE openai_predict(x[i])]

\* LitAPI.unbatch: one output per input, in order
unbatch(y) == y

\* whether lit_api.decode_request raises on this payload
stage_raises(api, x_enc) == api = "simple" /\ decode_raises(x_enc)

\* whether lit_api.predict raises on this input; on a batch, when it raises on
\* one of its elements
stage_predict_raises(api, x) == api = "simple" /\ predict_raises(x)

predict_batch_raises(api, x) == \E i \in DOMAIN x : stage_predict_raises(api, x[i])

\* x = lit_api.decode_request(x_enc)
stage_decode(api, x_enc) ==
    IF api = "simple" THEN decode_request(x_enc) ELSE openai_decode_request(x_enc)

\* y = lit_api.predict(x)
stage_predict(api, x) ==
    IF api = "simple" THEN predict(x) ELSE openai_predict(x)

\* y_enc = lit_api.encode_response(y)
stage_encode(api, y) ==
    IF api = "simple" THEN encode_response(y) ELSE openai_encode_response(y)

\* request bodies a client posts to /predict
Payloads == {[input |-> 4], [input |-> 5], [input |-> 6], [other |-> 0]}

\* the ChatCompletionRequest a client posts to /v1/chat/completions, with the
\* defaults of its optional fields; None is <<>>, a set value v is <<v>>, and
\* top_p counts tenths (10 is 1.0)
ChatRequest(n) ==
    [messages |-> "hi", n |-> n, stream |-> FALSE, stop |-> <<>>,
     frequency_penalty |-> 0, presence_penalty |-> 0, max_tokens |-> <<>>,
     top_p |-> 10]

\* requests that set one parameter the handler does not support
UnsupportedRequests ==
    {[ChatRequest(1) EXCEPT !.stream = TRUE],
     [ChatRequest(1) EXCEPT !.stop = <<"END">>],
     [ChatRequest(1) EXCEPT !.frequency_penalty = 1],
     [ChatRequest(1) EXCEPT !.presence_penalty = 1],
     [ChatRequest(1) EXCEPT !.max_tokens = <<16>>],
     [ChatRequest(1) EXCEPT !.top_p = 9]}

ChatRequests == {ChatRequest(n) : n \in 1..MaxN} \cup UnsupportedRequests

(* --------------------------- channel pool ----------------------------- *)
\* faulty variant: the last pooled pair is returned and left in the pool (pool[-1])
new_pipe_peek(pool, fresh) ==
    IF pool # <<>>
    THEN [pipe |-> pool[Len(pool)], pool |-> pool, fresh |-> fresh]
    ELSE [pipe |-> fresh, pool |-> pool, fresh |-> fresh + 1]

\* faulty variant: a pair constructed for an empty pool is also put into the pool
new_pipe_keep(pool, fresh) ==
    IF pool # <<>>
    THEN [pipe |-> pool[Len(pool)], pool |-> SubSeq(pool, 1, Len(pool) - 1),
          fresh |-> fresh]
    ELSE [pipe |-> fresh, pool |-> <<fresh>>, fresh |-> fresh + 1]

\* LitServer.new_pipe: pop the last pooled pair, or construct one on IndexError
new_pipe(pool, fresh) ==
    IF pool # <<>>
    THEN [pipe |-> pool[Len(pool)], pool |-> SubSeq(pool, 1, Len(pool) - 1),
          fresh |-> fresh]
    ELSE [pipe |-> fresh, pool |-> pool, fresh |-> fresh + 1]

\* LitServer.dispose_pipe: returns early above max_pool_size; otherwise calls
\* list.append with two arguments, which raises TypeError and appends nothing
dispose_pipe(pool, pipe) ==
    IF Len(pool) > max_pool_size
    THEN [pool |-> pool, raised |-> "none"]
    ELSE [pool |-> pool, raised |-> "TypeError"]

(* --------------------------- request table ---------------------------- *)
\* request_buffer[uid] = (request_data, pipe_s)
buffer_set(buf, uid, x_enc, pipe_s) ==
    [u \in DOMAIN buf \cup {uid} |->
        IF u = uid THEN [x_enc |-> x_enc, pipe_s |-> pipe_s] ELSE buf[u]]

\* faulty variant: the entry is read and left in the table (request_buffer[uid])
buffer_get(buf, uid) == buf

\* request_buffer.pop(uid): the dict without the key (KeyError when absent)
buffer_pop(buf, uid) == [u \in DOMAIN buf \ {uid} |-> buf[u]]

\* faulty variant: every output goes to the first sender (pipes[0])
zip_item_first(pipes, outputs, j) == [pipe_s |-> pipes[1], y |-> outputs[j]]

\* faulty variant: the outputs are paired with the senders in reverse order
zip_item_reversed(pipes, outputs, j) ==
    [pipe_s |-> pipes[j], y |-> outputs[Len(outputs) + 1 - j]]

\* for pipe_s, y in zip(pipes, outputs): the j-th pair
zip_item(pipes, outputs, j) == [pipe_s |-> pipes[j], y |-> outputs[j]]

\* faulty variant: the value is never written to the pipe
pipe_send_lost(ch, pipe, y_enc) == ch

\* pipe_s.send(y_enc) under contextlib.suppress(BrokenPipeError)
pipe_send(ch, pipe, y_enc) ==
    IF pipe \in closed THEN ch ELSE [ch EXCEPT ![pipe] = Append(@, y_enc)]

\* get_from_pipe: the received object, or the HTTPException it returns on timeout
HTTPException(status_code, detail) == [status_code |-> status_code, detail |-> detail]

IsHTTPException(data) == "status_code" \in DOMAIN data

get_from_pipe(ch, pipe) ==
    IF ch[pipe] # <<>> THEN Head(ch[pipe]) ELSE HTTPException(504, "Request timed out")

(* ------------------------------- Init --------------------------------- *)
NoCall == [pc |-> "idle", kind |-> "none", payload |-> [other |-> 0], n |-> 0, uids |-> <<>>,
           pipes |-> <<>>, k |-> 0, responses |-> <<>>, tasks |-> <<>>,
           result |-> [status_code |-> 0]]

NoWork == [pc |-> "setup", loop |-> "none", uid |-> 0, i |-> 0, inputs |-> <<>>,
           pipes |-> <<>>, outputs |-> <<>>]

Init ==
    /\ max_batch_size \in 1..MaxBatchSize
    /\ replicas \in 1..NumWorkers
    /\ lit_api \in {"simple", "openai"}
    /\ pipe_pool = [i \in 1..initial_pool_size |-> i]
    /\ nextPipe = initial_pool_size + 1
    /\ nextUid = 1
    /\ request_buffer = <<>>
    /\ request_queue = <<>>
    /\ channel = [p \in Pipes |-> <<>>]
    /\ closed = {}
    /\ calls = [c \in Calls |-> NoCall]
    /\ loopOwner = 0
    /\ workers = [w \in Workers |-> NoWork]
    /\ took = [u \in Uids |-> <<>>]
    /\ missed = [u \in Uids |-> {}]
    /\ nSends = [p \in Pipes |-> 0]
    /\ nStages = [u \in Uids |-> 0]
    /\ log = [w \in Workers |-> <<>>]
    /\ testHeld = {}
    /\ lastOp = [op |-> "none", pipe |-> 0, before |-> <<>>, held |-> {}, fresh |-> 0,
                 raised |-> "none", news |-> 0, disposes |-> 0]

(* --------------------------- /predict handler ------------------------- *)
\* Requests arrive in the order of their numbers.
Arrives(c) ==
    /\ calls[c].pc = "idle"
    /\ c > 1 => calls[c - 1].pc # "idle"
    /\ loopOwner = 0

\* predict: uid = uuid.uuid4(); pipe_s, pipe_r = self.new_pipe();
\* request_data = await request.json()
PredictStart(c, request_data) ==
    /\ Arrives(c)
    /\ lit_api = "simple"
    /\ LET np == new_pipe(pipe_pool, nextPipe) IN
        /\ pipe_pool' = np.pool
        /\ nextPipe' = np.fresh
        /\ calls' = [calls EXCEPT ![c] = [@ EXCEPT !.pc = "json",
                                                   !.kind = "predict",
                                                   !.payload = request_data,
                                                   !.n = 1,
                                                   !.uids = <<nextUid>>,
                                                   !.pipes = <<np.pipe>>]]
    /\ nextUid' = nextUid + 1
    /\ UNCHANGED <<sharedVars, channel, closed, loopOwner, workers, histVars,
                   testVars, configVars>>

\* faulty variant: the uid is put on the queue where the entry is to be inserted
PredictInsert_put_first(c) ==
    /\ calls[c].pc = "json"
    /\ loopOwner = 0
    /\ request_queue' = Append(request_queue, calls[c].uids[1])
    /\ calls' = [calls EXCEPT ![c].pc = "put"]
    /\ loopOwner' = c
    /\ UNCHANGED <<poolVars, nextUid, request_buffer, channel, closed, workers,
                   histVars, testVars, configVars>>

\* predict: self.app.request_buffer[uid] = (request_data, pipe_s)
PredictInsert(c) ==
    /\ calls[c].pc = "json"
    /\ loopOwner = 0
    /\ request_buffer' = buffer_set(request_buffer, calls[c].uids[1],
                                    calls[c].payload, calls[c].pipes[1])
    /\ calls' = [calls EXCEPT ![c].pc = "put"]
    /\ loopOwner' = c
    /\ UNCHANGED <<poolVars, nextUid, request_queue, channel, closed, workers,
                   histVars, testVars, configVars>>

\* predict: request_queue.put(uid); background_tasks.add_task(cleanup, ...);
\* then the handler awaits the task it creates for get_from_pipe
PredictPut(c) ==
    /\ calls[c].pc = "put"
    /\ calls[c].kind = "predict"
    /\ loopOwner = c
    /\ request_queue' = Append(request_queue, calls[c].uids[1])
    /\ calls' = [calls EXCEPT ![c] = [@ EXCEPT !.pc = "wait", !.k = 1,
                                                   !.tasks = <<calls[c].uids[1]>>]]
    /\ loopOwner' = 0
    /\ UNCHANGED <<poolVars, nextUid, request_buffer, channel, closed, workers,
                   histVars, testVars, configVars>>

\* get_from_pipe: pipe.poll(timeout) is a blocking call made on the event loop's
\* thread; until it returns no other coroutine of the gateway runs
PollStart(c) ==
    /\ calls[c].pc = "wait"
    /\ loopOwner = 0
    /\ calls' = [calls EXCEPT ![c].pc = "poll"]
    /\ loopOwner' = c
    /\ UNCHANGED <<poolVars, nextUid, sharedVars, channel, closed, workers,
                   histVars, testVars, configVars>>

\* FastAPI hands the BackgroundTasks of a handler to the response it builds from
\* the handler's return value; a handler that raises gets its response from the
\* exception handler and the tasks it added are dropped
background_tasks_run(raised, tasks) == IF raised THEN <<>> ELSE tasks

\* predict after get_from_pipe: raise data if it is an HTTPException, else return it
PredictFinish(c) ==
    /\ calls[c].pc = "poll"
    /\ calls[c].kind = "predict"
    /\ loopOwner = c
    /\ LET pipe_r == calls[c].pipes[1]
           data == get_from_pipe(channel, pipe_r) IN
        /\ channel' = [channel EXCEPT ![pipe_r] = IF @ = <<>> THEN @ ELSE Tail(@)]
        /\ calls' = [calls EXCEPT ![c] =
              [@ EXCEPT !.pc = "responded",
                        !.responses = <<data>>,
                        !.tasks = background_tasks_run(IsHTTPException(data), @),
                        !.result = IF IsHTTPException(data) THEN data
                                   ELSE [status_code |-> 200, body |-> data]]]
        /\ closed' = closed \cup {pipe_r}
    /\ loopOwner' = 0
    /\ UNCHANGED <<poolVars, nextUid, sharedVars, workers, histVars, testVars,
                   configVars>>

(* ---------------------- /v1/chat/completions handler ------------------- *)
\* faulty variant: the check of top_p is missing
chat_rejects_but_top_p(request) ==
    IF request.stream THEN "Streaming not currently supported"
    ELSE IF request.stop # <<>> THEN "Parameter stop not currently supported"
    ELSE IF request.frequency_penalty # 0
    THEN "Parameter frequency_penalty not currently supported"
    ELSE IF request.presence_penalty # 0
    THEN "Parameter presence_penalty not currently supported"
    ELSE IF request.max_tokens # <<>>
    THEN "Parameter max_tokens not currently supported"
    ELSE ""

\* chat, lines 217-233: the detail of the HTTPException(400) the handler raises
\* for the request, "" when it raises none
chat_rejects(request) ==
    IF request.stream THEN "Streaming not currently supported"
    ELSE IF request.stop # <<>> THEN "Parameter stop not currently supported"
    ELSE IF request.frequency_penalty # 0
    THEN "Parameter frequency_penalty not currently supported"
    ELSE IF request.presence_penalty # 0
    THEN "Parameter presence_penalty not currently supported"
    ELSE IF request.max_tokens # <<>>
    THEN "Parameter max_tokens not currently supported"
    ELSE IF request.top_p # 10 THEN "Parameter top_p not currently supported"
    ELSE ""

\* chat, lines 217-233: raise HTTPException(status_code=400, ...) before anything
\* else is done
ChatReject(c, request) ==
    /\ Arrives(c)
    /\ lit_api = "openai"
    /\ chat_rejects(request) # ""
    /\ calls' = [calls EXCEPT ![c] =
          [@ EXCEPT !.pc = "responded", !.kind = "chat", !.payload = request,
                    !.n = request.n,
                    !.tasks = background_tasks_run(TRUE, @),
                    !.result = HTTPException(400, chat_rejects(request))]]
    /\ UNCHANGED <<poolVars, nextUid, sharedVars, channel, closed, loopOwner,
                   workers, histVars, testVars, configVars>>

\* chat, lines 235-236: uids = [uuid.uuid4() for _ in range(request.n)]; the
\* handler then runs without an await up to its first get_from_pipe
ChatStart(c, request) ==
    /\ Arrives(c)
    /\ lit_api = "openai"
    /\ chat_rejects(request) = ""
    /\ calls' = [calls EXCEPT ![c] =
          [@ EXCEPT !.pc = "new", !.kind = "chat", !.payload = request,
                    !.n = request.n, !.k = 1,
                    !.uids = [i \in 1..request.n |-> nextUid + i - 1]]]
    /\ nextUid' = nextUid + request.n
    /\ loopOwner' = c
    /\ UNCHANGED <<poolVars, sharedVars, channel, closed, workers, histVars,
                   testVars, configVars>>

\* chat, lines 239-241: pipe_s, pipe_r = self.new_pipe();
\* request_buffer[uid] = (request, pipe_s)
ChatInsert(c) ==
    /\ calls[c].pc = "new"
    /\ loopOwner = c
    /\ LET np == new_pipe(pipe_pool, nextPipe)
           uid == calls[c].uids[calls[c].k] IN
        /\ pipe_pool' = np.pool
        /\ nextPipe' = np.fresh
        /\ request_buffer' = buffer_set(request_buffer, uid, calls[c].payload, np.pipe)
        /\ calls' = [calls EXCEPT ![c] = [@ EXCEPT !.pc = "put",
                                                   !.pipes = Append(@, np.pipe)]]
    /\ UNCHANGED <<nextUid, request_queue, channel, closed, loopOwner, workers,
                   histVars, testVars, configVars>>

\* chat, lines 242-246: request_queue.put(uid); add_task(cleanup, ...);
\* pipes.append(pipe_r); after the last uid the handler awaits the first reply
ChatPut(c) ==
    /\ calls[c].pc = "put"
    /\ calls[c].kind = "chat"
    /\ loopOwner = c
    /\ LET k == calls[c].k
           uid == calls[c].uids[k] IN
        /\ request_queue' = Append(request_queue, uid)
        /\ calls' = [calls EXCEPT ![c] =
              [@ EXCEPT !.tasks = Append(@, uid),
                        !.k = IF k = calls[c].n THEN 1 ELSE k + 1,
                        !.pc = IF k = calls[c].n THEN "wait" ELSE "new"]]
        /\ loopOwner' = IF k = calls[c].n THEN 0 ELSE c
    /\ UNCHANGED <<poolVars, nextUid, request_buffer, channel, closed, workers,
                   histVars, testVars, configVars>>

\* UsageInfo(): the three counters, zero by default
UsageInfo == [prompt_tokens |-> 0, completion_tokens |-> 0, total_tokens |-> 0]

\* chat, lines 264-267: the usage a reply reports, UsageInfo() when it has none
task_usage(response) ==
    IF "usage" \in DOMAIN response THEN response.usage ELSE UsageInfo

\* chat, lines 255-269: usage accumulated field by field over the first k replies
RECURSIVE usage_sum(_, _)
usage_sum(responses, k) ==
    IF k = 0 THEN UsageInfo
    ELSE LET usage == usage_sum(responses, k - 1)
             task == task_usage(responses[k]) IN
         [prompt_tokens |-> usage.prompt_tokens + task.prompt_tokens,
          completion_tokens |-> usage.completion_tokens + task.completion_tokens,
          total_tokens |-> usage.total_tokens + task.total_tokens]

\* chat, line 261: response.get("finish_reason", "stop")
finish_reason(response) ==
    IF "finish_reason" \in DOMAIN response THEN response.finish_reason ELSE "stop"

\* faulty variant: the choices are filled from the replies in reverse order
chat_response_reversed(request, responses) ==
    IF \E i \in DOMAIN responses : IsHTTPException(responses[i])
    THEN [status_code |-> 500, detail |-> "Internal Server Error"]
    ELSE [status_code |-> 200,
          body |-> [model |-> "litserve",
                    choices |-> [i \in DOMAIN responses |->
                        [index |-> i - 1, role |-> "assistant",
                         content |-> responses[Len(responses) + 1 - i].text,
                         finish_reason |->
                             finish_reason(responses[Len(responses) + 1 - i])]],
                    usage |-> usage_sum(responses, Len(responses))]]

\* chat, lines 253-272: response["text"] on each collected reply; an
\* HTTPException among them is not subscriptable and the handler dies with
\* TypeError (status 500)
chat_response(request, responses) ==
    IF \E i \in DOMAIN responses : IsHTTPException(responses[i])
    THEN [status_code |-> 500, detail |-> "Internal Server Error"]
    ELSE [status_code |-> 200,
          body |-> [model |-> "litserve",
                    choices |-> [i \in DOMAIN responses |->
                        [index |-> i - 1, role |-> "assistant",
                         content |-> responses[i].text,
                         finish_reason |-> finish_reason(responses[i])]],
                    usage |-> usage_sum(responses, Len(responses))]]

\* chat, lines 249-251: data = await get_from_pipe(pipe_r, timeout);
\* responses.append(data); after the last pipe the composite response is built
ChatReceive(c) ==
    /\ calls[c].pc = "poll"
    /\ calls[c].kind = "chat"
    /\ loopOwner = c
    /\ LET k == calls[c].k
           pipe_r == calls[c].pipes[k]
           data == get_from_pipe(channel, pipe_r)
           responses == Append(calls[c].responses, data)
           result == chat_response(calls[c].payload, responses) IN
        /\ channel' = [channel EXCEPT ![pipe_r] = IF @ = <<>> THEN @ ELSE Tail(@)]
        /\ IF k < calls[c].n
           THEN /\ calls' = [calls EXCEPT ![c] = [@ EXCEPT !.pc = "wait", !.k = k + 1,
                                                           !.responses = responses]]
                /\ UNCHANGED closed
           ELSE /\ calls' = [calls EXCEPT ![c] =
                      [@ EXCEPT !.pc = "responded",
                                !.responses = responses,
                                !.tasks = background_tasks_run(
                                              result.status_code # 200, @),
                                !.result = result]]
                /\ closed' = closed \cup Range(calls[c].pipes)
    /\ loopOwner' = 0
    /\ UNCHANGED <<poolVars, nextUid, sharedVars, workers, histVars, testVars,
                   configVars>>

\* cleanup(request_buffer, uid), run as a background task after the response
Cleanup(c) ==
    /\ calls[c].pc = "responded"
    /\ calls[c].tasks # <<>>
    /\ LET uid == Head(calls[c].tasks) IN
        /\ request_buffer' = buffer_pop(request_buffer, uid)
        /\ IF uid \in DOMAIN request_buffer
           THEN /\ took' = [took EXCEPT ![uid] = Append(@, "cleanup")]
                /\ UNCHANGED missed
           ELSE /\ missed' = [missed EXCEPT ![uid] = @ \cup {"cleanup"}]
                /\ UNCHANGED took
    /\ calls' = [calls EXCEPT ![c].tasks = Tail(@)]
    /\ UNCHANGED <<poolVars, nextUid, request_queue, channel, closed, loopOwner,
                   workers, nSends, nStages, log, testVars, configVars>>

(* ------------------------------ workers ------------------------------- *)
\* one call made by a replica's process: what was called, for which uid, with
\* what argument and what came back
Event(ev, uid, arg, out) == [ev |-> ev, uid |-> uid, arg |-> arg, out |-> out]

\* faulty variant: the two loops exchanged
inference_worker_swapped(mbs) == IF mbs > 1 THEN "single_loop" ELSE "batched_loop"

\* inference_worker, lines 80-83: the loop the replica enters
inference_worker(mbs) == IF mbs > 1 THEN "batched_loop" ELSE "single_loop"

\* faulty variant: the exception is caught and the loop goes on to its next cycle
stage_exception_caught(work) == [NoWork EXCEPT !.pc = "get", !.loop = work.loop]

\* an exception of a user stage is caught nowhere: it ends the loop, the target
\* of the replica's process
stage_exception(work) == [work EXCEPT !.pc = "crashed"]

\* the loop's next cycle: while True
next_cycle(work) == [NoWork EXCEPT !.pc = "get", !.loop = work.loop]

\* faulty variant: a send on a pair whose receiver is gone ends the loop
suppress_nothing(broken, work, after) ==
    IF broken THEN stage_exception(work) ELSE after

\* with contextlib.suppress(BrokenPipeError): the loop goes on as after a send
\* that succeeded
suppress_BrokenPipeError(broken, work, after) == after

\* faulty variant: the collection only ends on an empty queue
collection_done_on_empty(i, mbs, queue) == queue = <<>>

\* batched_loop, lines 47-55: for _ in range(max_batch_size) with break on Empty
collection_done(i, mbs, queue) == i >= mbs \/ queue = <<>>

\* inference_worker: lit_api.setup(device), then the loop max_batch_size selects
WorkerSetup(w) ==
    /\ w <= replicas
    /\ workers[w].pc = "setup"
    /\ LET loop == inference_worker(max_batch_size) IN
        /\ workers' = [workers EXCEPT ![w] = [@ EXCEPT !.pc = "get", !.loop = loop]]
        /\ log' = [log EXCEPT ![w] = @ \o <<Event("setup", 0, 0, 0),
                                            Event(loop, 0, 0, 0)>>]
    /\ UNCHANGED <<poolVars, nextUid, sharedVars, channel, closed, calls, loopOwner,
                   took, missed, nSends, nStages, testVars, configVars>>

\* single_loop: uid = request_queue.get(timeout=1.0); on Empty the loop retries
SingleGet(w) ==
    /\ workers[w].loop = "single_loop"
    /\ workers[w].pc = "get"
    /\ request_queue # <<>>
    /\ request_queue' = Tail(request_queue)
    /\ workers' = [workers EXCEPT ![w] = [@ EXCEPT !.pc = "take",
                                                       !.uid = Head(request_queue)]]
    /\ log' = [log EXCEPT ![w] = Append(@, Event("get", Head(request_queue), 0, 0))]
    /\ UNCHANGED <<poolVars, nextUid, request_buffer, channel, closed, calls,
                   loopOwner, took, missed, nSends, nStages, testVars, configVars>>

\* single_loop: x_enc, pipe_s = request_buffer.pop(uid), KeyError -> continue;
\* then decode_request, predict, encode_response (an exception leaves the loop)
SingleTake(w) ==
    /\ workers[w].loop = "single_loop"
    /\ workers[w].pc = "take"
    /\ LET uid == workers[w].uid IN
        /\ request_buffer' = buffer_pop(request_buffer, uid)
        /\ IF uid \notin DOMAIN request_buffer
           THEN /\ missed' = [missed EXCEPT ![uid] = @ \cup {w}]
                /\ workers' = [workers EXCEPT ![w].pc = "get"]
                /\ log' = [log EXCEPT ![w] = Append(@, Event("KeyError", uid, 0, 0))]
                /\ UNCHANGED <<took, nStages>>
           ELSE LET x_enc == request_buffer[uid].x_enc
                    pipe_s == request_buffer[uid].pipe_s
                    x == stage_decode(lit_api, x_enc)
                    y == stage_predict(lit_api, x)
                    y_enc == stage_encode(lit_api, y)
                    popped == <<Event("pop", uid, x_enc, pipe_s)>> IN
                /\ took' = [took EXCEPT ![uid] = Append(@, w)]
                /\ nStages' = [nStages EXCEPT ![uid] = @ + 1]
                /\ UNCHANGED missed
                /\ IF stage_raises(lit_api, x_enc)
                   THEN /\ workers' = [workers EXCEPT ![w] = stage_exception(@)]
                        /\ log' = [log EXCEPT ![w] = @ \o popped \o
                                     <<Event("raise", uid, "decode_request", 0)>>]
                   ELSE IF stage_predict_raises(lit_api, x)
                   THEN /\ workers' = [workers EXCEPT ![w] = stage_exception(@)]
                        /\ log' = [log EXCEPT ![w] = @ \o popped \o
                                     <<Event("decode_request", uid, x_enc, x),
                                       Event("raise", uid, "predict", 0)>>]
                   ELSE /\ workers' = [workers EXCEPT ![w] =
                              [@ EXCEPT !.pc = "send",
                                        !.pipes = <<pipe_s>>,
                                        !.outputs = <<y_enc>>]]
                        /\ log' = [log EXCEPT ![w] = @ \o popped \o
                                     <<Event("decode_request", uid, x_enc, x),
                                       Event("predict", uid, x, y),
                                       Event("encode_response", uid, y, y_enc)>>]
    /\ UNCHANGED <<poolVars, nextUid, request_queue, channel, closed, calls,
                   loopOwner, nSends, testVars, configVars>>

\* single_loop: pipe_s.send(y_enc), BrokenPipeError suppressed
SingleSend(w) ==
    /\ workers[w].loop = "single_loop"
    /\ workers[w].pc = "send"
    /\ LET pipe_s == workers[w].pipes[1] IN
        /\ channel' = pipe_send(channel, pipe_s, workers[w].outputs[1])
        /\ nSends' = [nSends EXCEPT ![pipe_s] = @ + 1]
        /\ log' = [log EXCEPT ![w] = Append(@, Event("send", workers[w].uid, pipe_s,
                                                     workers[w].outputs[1]))]
    /\ workers' = [workers EXCEPT ![w] =
          suppress_BrokenPipeError(workers[w].pipes[1] \in closed, @, next_cycle(@))]
    /\ UNCHANGED <<poolVars, nextUid, sharedVars, closed, calls, loopOwner, took,
                   missed, nStages, testVars, configVars>>

\* batched_loop, line 49: uid = request_queue.get(timeout=0.01), one of at most
\* max_batch_size reads of a collection cycle
BatchGet(w) ==
    /\ workers[w].loop = "batched_loop"
    /\ workers[w].pc = "get"
    /\ ~collection_done(workers[w].i, max_batch_size, request_queue)
    /\ request_queue # <<>>
    /\ request_queue' = Tail(request_queue)
    /\ workers' = [workers EXCEPT ![w] = [@ EXCEPT !.pc = "take",
                                                       !.uid = Head(request_queue),
                                                       !.i = @ + 1]]
    /\ log' = [log EXCEPT ![w] = Append(@, Event("get", Head(request_queue), 0, 0))]
    /\ UNCHANGED <<poolVars, nextUid, request_buffer, channel, closed, calls,
                   loopOwner, took, missed, nSends, nStages, testVars, configVars>>

\* batched_loop, lines 50-60: request_buffer.pop(uid), KeyError -> continue;
\* x = decode_request(x_enc); inputs.append(x); pipes.append(pipe_s)
BatchTake(w) ==
    /\ workers[w].loop = "batched_loop"
    /\ workers[w].pc = "take"
    /\ LET uid == workers[w].uid IN
        /\ request_buffer' = buffer_pop(request_buffer, uid)
        /\ IF uid \notin DOMAIN request_buffer
           THEN /\ missed' = [missed EXCEPT ![uid] = @ \cup {w}]
                /\ workers' = [workers EXCEPT ![w].pc = "get"]
                /\ log' = [log EXCEPT ![w] = Append(@, Event("KeyError", uid, 0, 0))]
                /\ UNCHANGED <<took, nStages>>
           ELSE LET x_enc == request_buffer[uid].x_enc
                    pipe_s == request_buffer[uid].pipe_s
                    x == stage_decode(lit_api, x_enc)
                    popped == <<Event("pop", uid, x_enc, pipe_s)>> IN
                /\ took' = [took EXCEPT ![uid] = Append(@, w)]
                /\ nStages' = [nStages EXCEPT ![uid] = @ + 1]
                /\ UNCHANGED missed
                /\ IF stage_raises(lit_api, x_enc)
                   THEN /\ workers' = [workers EXCEPT ![w] = stage_exception(@)]
                        /\ log' = [log EXCEPT ![w] = @ \o popped \o
                                     <<Event("raise", uid, "decode_request", 0)>>]
                   ELSE /\ workers' = [workers EXCEPT ![w] =
                              [@ EXCEPT !.pc = "get",
                                        !.inputs = Append(@, x),
                                        !.pipes = Append(@, pipe_s)]]
                        /\ log' = [log EXCEPT ![w] = @ \o popped \o
                                     <<Event("decode_request", uid, x_enc, x)>>]
    /\ UNCHANGED <<poolVars, nextUid, request_queue, channel, closed, calls,
                   loopOwner, nSends, testVars, configVars>>

\* batched_loop, lines 54-68: the collection ends after max_batch_size reads or
\* at the first read that finds the queue empty for its timeout; with no inputs
\* the cycle restarts, else batch, predict and unbatch run once
BatchPredict(w) ==
    /\ workers[w].loop = "batched_loop"
    /\ workers[w].pc = "get"
    /\ collection_done(workers[w].i, max_batch_size, request_queue)
    /\ LET inputs == workers[w].inputs
           x == batch(inputs)
           y == predict_batch(lit_api, x)
           outputs == unbatch(y) IN
       IF inputs = <<>>
       THEN /\ workers' = [workers EXCEPT ![w] = next_cycle(@)]
            /\ UNCHANGED log
       ELSE IF predict_batch_raises(lit_api, x)
       THEN /\ workers' = [workers EXCEPT ![w] = stage_exception(@)]
            /\ log' = [log EXCEPT ![w] = @ \o <<Event("batch", 0, inputs, x),
                                                Event("raise", 0, "predict", 0)>>]
       ELSE /\ workers' = [workers EXCEPT ![w] =
                  [@ EXCEPT !.pc = "send", !.i = 1, !.outputs = outputs]]
            /\ log' = [log EXCEPT ![w] = @ \o <<Event("batch", 0, inputs, x),
                                                Event("predict", 0, x, y),
                                                Event("unbatch", 0, y, outputs)>>]
    /\ UNCHANGED <<poolVars, nextUid, sharedVars, channel, closed, calls, loopOwner,
                   took, missed, nSends, nStages, testVars, configVars>>

\* batched_loop, lines 70-74: for pipe_s, y in zip(pipes, outputs):
\* pipe_s.send(encode_response(y)), BrokenPipeError suppressed
BatchSend(w) ==
    /\ workers[w].loop = "batched_loop"
    /\ workers[w].pc = "send"
    /\ LET j == workers[w].i
           item == zip_item(workers[w].pipes, workers[w].outputs, j)
           pipe_s == item.pipe_s
           y_enc == stage_encode(lit_api, item.y) IN
        /\ channel' = pipe_send(channel, pipe_s, y_enc)
        /\ nSends' = [nSends EXCEPT ![pipe_s] = @ + 1]
        /\ log' = [log EXCEPT ![w] = @ \o <<Event("encode_response", 0, item.y, y_enc),
                                            Event("send", 0, pipe_s, y_enc)>>]
        /\ workers' = [workers EXCEPT ![w] =
              suppress_BrokenPipeError(pipe_s \in closed, @,
                  IF j < Len(workers[w].pipes) /\ j < Len(workers[w].outputs)
                  THEN [@ EXCEPT !.i = j + 1]
                  ELSE next_cycle(@))]
    /\ UNCHANGED <<poolVars, nextUid, sharedVars, closed, calls, loopOwner, took,
                   missed, nStages, testVars, configVars>>

(* ------------------------------- Next --------------------------------- *)
Next ==
    \/ \E c \in Calls, x \in Payloads : PredictStart(c, x)
    \/ \E c \in Calls : PredictInsert(c)
    \/ \E c \in Calls : PredictPut(c)
    \/ \E c \in Calls : PollStart(c)
    \/ \E c \in Calls : PredictFinish(c)
    \/ \E c \in Calls, request \in ChatRequests : ChatReject(c, request)
    \/ \E c \in Calls, request \in ChatRequests : ChatStart(c, request)
    \/ \E c \in Calls : ChatInsert(c)
    \/ \E c \in Calls : ChatPut(c)
    \/ \E c \in Calls : ChatReceive(c)
    \/ \E c \in Calls : Cleanup(c)
    \/ \E w \in Workers : WorkerSetup(w)
    \/ \E w \in Workers : SingleGet(w)
    \/ \E w \in Workers : SingleTake(w)
    \/ \E w \in Workers : SingleSend(w)
    \/ \E w \in Workers : BatchGet(w)
    \/ \E w \in Workers : BatchTake(w)
    \/ \E w \in Workers : BatchPredict(w)
    \/ \E w \in Workers : BatchSend(w)

Spec == Init /\ [][Next]_vars

(* ------------------- direct calls of the pool methods ------------------ *)
\* test_new_pipe: lit_server.new_pipe() called directly
TestNewPipe ==
    /\ lastOp.news <= max_pool_size
    /\ LET np == new_pipe(pipe_pool, nextPipe) IN
        /\ pipe_pool' = np.pool
        /\ nextPipe' = np.fresh
        /\ testHeld' = testHeld \cup {np.pipe}
        /\ lastOp' = [op |-> "new", pipe |-> np.pipe, before |-> pipe_pool,
                      held |-> testHeld, fresh |-> nextPipe, raised |-> "none",
                      news |-> lastOp.news + 1, disposes |-> lastOp.disposes]
    /\ UNCHANGED <<nextUid, sharedVars, channel, closed, calls, loopOwner, workers,
                   histVars, configVars>>

\* lit_server.dispose_pipe(pipe_s, pipe_r) called directly on a pair new_pipe gave
TestDisposeHeld(pipe) ==
    /\ pipe \in testHeld
    /\ LET dp == dispose_pipe(pipe_pool, pipe) IN
        /\ pipe_pool' = dp.pool
        /\ lastOp' = [op |-> "dispose", pipe |-> pipe, before |-> pipe_pool,
                      held |-> testHeld, fresh |-> nextPipe, raised |-> dp.raised,
                      news |-> lastOp.news, disposes |-> lastOp.disposes + 1]
    /\ testHeld' = testHeld \ {pipe}
    /\ UNCHANGED <<nextPipe, nextUid, sharedVars, channel, closed, calls, loopOwner,
                   workers, histVars, configVars>>

\* test_dispose_pipe: lit_server.dispose_pipe(*Pipe()) on a pair just constructed
TestDisposeFresh ==
    /\ nextPipe < initial_pool_size + MaxTestPipes
    /\ LET dp == dispose_pipe(pipe_pool, nextPipe) IN
        /\ pipe_pool' = dp.pool
        /\ lastOp' = [op |-> "dispose", pipe |-> nextPipe, before |-> pipe_pool,
                      held |-> testHeld, fresh |-> nextPipe + 1, raised |-> dp.raised,
                      news |-> lastOp.news, disposes |-> lastOp.disposes + 1]
    /\ nextPipe' = nextPipe + 1
    /\ UNCHANGED <<testHeld, nextUid, sharedVars, channel, closed, calls, loopOwner,
                   workers, histVars, configVars>>

PoolNext ==
    \/ TestNewPipe
    \/ \E pipe \in Pipes : TestDisposeHeld(pipe)
    \/ TestDisposeFresh

PoolSpec == Init /\ [][PoolNext]_vars

(* ---------------- direct runs of the loops on a prepared queue ---------- *)
\* loop_args: requests_queue.put(uid) and request_buffer[uid] = (payload, write)
\* set up by the caller of the loop; an uid put without an entry is one whose
\* entry is gone when the loop pops it
LoopArgsPut(x_enc, present) ==
    /\ nextUid <= MaxUids
    /\ nextPipe \in Pipes
    /\ request_queue' = Append(request_queue, nextUid)
    /\ request_buffer' = IF present
                         THEN buffer_set(request_buffer, nextUid, x_enc, nextPipe)
                         ELSE request_buffer
    /\ nextUid' = nextUid + 1
    /\ nextPipe' = nextPipe + 1
    /\ UNCHANGED <<pipe_pool, channel, closed, calls, loopOwner, workers, histVars,
                   testVars, configVars>>

LoopNext ==
    \/ \E x_enc \in Payloads, present \in BOOLEAN : LoopArgsPut(x_enc, present)
    \/ \E w \in Workers : WorkerSetup(w)
    \/ \E w \in Workers : SingleGet(w)
    \/ \E w \in Workers : SingleTake(w)
    \/ \E w \in Workers : SingleSend(w)
    \/ \E w \in Workers : BatchGet(w)
    \/ \E w \in Workers : BatchTake(w)
    \/ \E w \in Workers : BatchPredict(w)
    \/ \E w \in Workers : BatchSend(w)

LoopSpec == Init /\ [][LoopNext]_vars

(* ------------- the chat handler over workers with any lit_api ----------- *)
\* replies an encode_response of a user's API may produce for a chat request
ChatReplies ==
    {[text |-> "a", usage |-> [prompt_tokens |-> 1, completion_tokens |-> 2,
                               total_tokens |-> 3]],
     [text |-> "b", usage |-> [prompt_tokens |-> 1, completion_tokens |-> 1,
                               total_tokens |-> 2]],
     [text |-> "c"]}

\* single_loop, lines 28-37, with the user's stages left open: the entry is
\* popped and decode_request, predict and encode_response give some reply y_enc
OpaqueTake(w, y_enc) ==
    /\ workers[w].loop = "single_loop"
    /\ workers[w].pc = "take"
    /\ LET uid == workers[w].uid IN
        /\ request_buffer' = buffer_pop(request_buffer, uid)
        /\ IF uid \notin DOMAIN request_buffer
           THEN /\ missed' = [missed EXCEPT ![uid] = @ \cup {w}]
                /\ workers' = [workers EXCEPT ![w].pc = "get"]
                /\ log' = [log EXCEPT ![w] = Append(@, Event("KeyError", uid, 0, 0))]
                /\ UNCHANGED <<took, nStages>>
           ELSE LET x_enc == request_buffer[uid].x_enc
                    pipe_s == request_buffer[uid].pipe_s IN
                /\ took' = [took EXCEPT ![uid] = Append(@, w)]
                /\ nStages' = [nStages EXCEPT ![uid] = @ + 1]
                /\ UNCHANGED missed
                /\ workers' = [workers EXCEPT ![w] =
                      [@ EXCEPT !.pc = "send", !.pipes = <<pipe_s>>,
                                !.outputs = <<y_enc>>]]
                /\ log' = [log EXCEPT ![w] = @ \o
                             <<Event("pop", uid, x_enc, pipe_s),
                               Event("encode_response", uid, x_enc, y_enc)>>]
    /\ UNCHANGED <<poolVars, nextUid, request_queue, channel, closed, calls,
                   loopOwner, nSends, testVars, configVars>>

ChatNext ==
    \/ \E c \in Calls, request \in ChatRequests : ChatReject(c, request)
    \/ \E c \in Calls, request \in ChatRequests : ChatStart(c, request)
    \/ \E c \in Calls : ChatInsert(c)
    \/ \E c \in Calls : ChatPut(c)
    \/ \E c \in Calls : PollStart(c)
    \/ \E c \in Calls : ChatReceive(c)
    \/ \E c \in Calls : Cleanup(c)
    \/ \E w \in Workers : WorkerSetup(w)
    \/ \E w \in Workers : SingleGet(w)
    \/ \E w \in Workers, y_enc \in ChatReplies : OpaqueTake(w, y_enc)
    \/ \E w \in Workers : SingleSend(w)

ChatSpec == Init /\ [][ChatNext]_vars

(* ============================== claims ================================ *)
IsWorker(t) == t \in Workers

\* the pair whose sender the gateway stored for uid u
SenderOf(u) ==
    {calls[c].pipes[i] : c \in {d \in Calls : \E i \in DOMAIN calls[d].pipes :
                                      calls[d].uids[i] = u},
                         i \in {j \in 1..MaxN : \E d \in Calls :
                                      /\ j \in DOMAIN calls[d].pipes
                                      /\ calls[d].uids[j] = u}}

Minted == 1..(nextUid - 1)

\* a request holds its pair from new_pipe until its handler has finished
InFlight(c) == calls[c].pc \in {"json", "new", "put", "wait", "poll"}

\* the response was sent and no background task of the request is left
Finished(c) == calls[c].pc = "responded" /\ calls[c].tasks = <<>>

(* C1: for every uid the gateway minted, at most one worker receives its    *)
(* envelope from request_buffer.pop and at most one send is made on the     *)
(* sender stored for it, whatever the interleaving of handlers, workers     *)
(* (single or batched) and cleanup.                                         *)
C1_AtMostOneDelivery ==
    \A u \in Minted :
        /\ Len(SelectSeq(took[u], IsWorker)) <= 1
        /\ \A p \in SenderOf(u) : nSends[p] <= 1

\* two uids, each taken by a different worker, each answered once
C1_Witness ==
    \E u1, u2 \in Minted :
        /\ u1 # u2
        /\ Len(took[u1]) = 1 /\ Len(took[u2]) = 1
        /\ IsWorker(took[u1][1]) /\ IsWorker(took[u2][1])
        /\ took[u1][1] # took[u2][1]
        /\ \A p \in SenderOf(u1) \cup SenderOf(u2) : nSends[p] = 1

(* C2: request_buffer.pop(uid) hands the entry to the first caller only:    *)
(* nobody receives an entry twice, an entry still in the table was received *)
(* by nobody, a pop that finds the key absent comes after a successful one, *)
(* and such a pop changes neither the table nor any channel, runs no user   *)
(* stage, sends nothing and stops no worker.                                *)
C2_TakeIdempotent ==
    /\ [](\A u \in Uids :
            /\ Len(took[u]) <= 1
            /\ (u \in DOMAIN request_buffer => took[u] = <<>>)
            /\ (missed[u] # {} => took[u] # <<>> /\ u \notin DOMAIN request_buffer)
            /\ nStages[u] = Len(SelectSeq(took[u], IsWorker)))
    /\ [][\A u \in Uids :
            missed'[u] # missed[u] =>
                /\ request_buffer' = request_buffer
                /\ channel' = channel
                /\ took' = took /\ nStages' = nStages /\ nSends' = nSends
                /\ \A w \in Workers :
                      workers'[w].pc = "crashed" => workers[w].pc = "crashed"]_vars

\* a worker received the entry and cleanup then found the key absent
C2_Witness ==
    \E u \in Minted :
        /\ Len(took[u]) = 1 /\ IsWorker(took[u][1])
        /\ "cleanup" \in missed[u]

(* C3: a /predict request whose reply does not arrive within the timeout    *)
(* ends with the 504 "Request timed out" error, and once its handling is    *)
(* over its table entry has been removed exactly once.                      *)
C3_TimeoutRemovesEntry ==
    \A c \in Calls :
        (calls[c].kind = "predict" /\ Finished(c) /\ calls[c].result.status_code # 200) =>
            /\ calls[c].result = HTTPException(504, "Request timed out")
            /\ \A i \in DOMAIN calls[c].uids : Len(took[calls[c].uids[i]]) = 1

\* a replica with no step left: not started, stopped by an exception, or polling
\* an empty queue with nothing collected
WorkerIdle(w) ==
    \/ w > replicas
    \/ workers[w].pc = "crashed"
    \/ workers[w].pc = "get" /\ request_queue = <<>> /\ workers[w].inputs = <<>>

Quiescent ==
    /\ \A c \in Calls : calls[c].pc = "idle" \/ Finished(c)
    /\ \A w \in Workers : WorkerIdle(w)

(* C4: no entry stays in the table for ever: once no handler is running, no *)
(* cleanup is pending and no worker has a step left, the table is empty.    *)
C4_NoEntryLeft == Quiescent => DOMAIN request_buffer = {}

\* a step of call c's handler up to the start of its wait
HandlerStep(c) ==
    \/ \E x \in Payloads : PredictStart(c, x)
    \/ \E request \in ChatRequests : ChatReject(c, request)
    \/ \E request \in ChatRequests : ChatStart(c, request)
    \/ PredictInsert(c) \/ PredictPut(c) \/ ChatInsert(c) \/ ChatPut(c)
    \/ PollStart(c)

HandlerPending(c) ==
    \/ calls[c].pc \in {"json", "new", "put", "wait"}
    \/ calls[c].pc = "idle" /\ (c > 1 => calls[c - 1].pc # "idle")

(* C5: while one handler waits in get_from_pipe for its reply, every other  *)
(* request that has a handler step to take can take it: the next request    *)
(* can be accepted, inserted, enqueued and answered.                        *)
C5_WaitDoesNotBlock ==
    \A c \in Calls :
        calls[c].pc = "poll" =>
            \A d \in Calls \ {c} : HandlerPending(d) => ENABLED HandlerStep(d)

\* what the user stages make of one payload
OwnResult(x_enc) == stage_encode(lit_api, stage_predict(lit_api,
                                                        stage_decode(lit_api, x_enc)))

(* C6: the payload a caller receives is the encoded prediction of its own   *)
(* request payload: a /predict caller answered with status 200 gets         *)
(* encode_response(predict(decode_request(payload))) of the payload it      *)
(* posted, and each choice of a chat response carries the text computed     *)
(* from that request.                                                       *)
C6_RoutedByIdentifier ==
    \A c \in Calls :
        calls[c].result.status_code = 200 =>
            IF calls[c].kind = "predict"
            THEN calls[c].result.body = OwnResult(calls[c].payload)
            ELSE \A i \in DOMAIN calls[c].result.body.choices :
                    calls[c].result.body.choices[i].content
                        = OwnResult(calls[c].payload).text

\* two callers with different payloads, served by a batched worker, both answered
C6_Witness ==
    \E c, d \in Calls :
        /\ calls[c].kind = "predict" /\ calls[d].kind = "predict"
        /\ calls[c].payload # calls[d].payload
        /\ calls[c].result.status_code = 200 /\ calls[d].result.status_code = 200
        /\ max_batch_size > 1
        /\ \E w \in Workers : took[calls[c].uids[1]] = <<w>>
                              /\ took[calls[d].uids[1]] = <<w>>

(* C7: the pool never holds more than max_pool_size pairs, and a release    *)
(* keeps the pair exactly when the pool holds fewer than max_pool_size      *)
(* pairs: after dispose_pipe the pool is the old pool plus the pair, or the *)
(* old pool when it was already full.                                       *)
C7_ReleaseBounded ==
    /\ Len(pipe_pool) <= max_pool_size
    /\ lastOp.op = "dispose" =>
          /\ lastOp.raised = "none"
          /\ pipe_pool = IF Len(lastOp.before) < max_pool_size
                         THEN Append(lastOp.before, lastOp.pipe)
                         ELSE lastOp.before

(* C8: new_pipe never fails: from a non-empty pool it returns the last      *)
(* pooled pair and the pool shrinks by exactly that pair; from an empty     *)
(* pool it returns a pair constructed for the call, which nobody holds, and *)
(* the pool stays empty; after max_pool_size acquisitions and no release    *)
(* the pool is empty.                                                       *)
C8_AcquireNeverFails ==
    /\ lastOp.op = "new" =>
          /\ lastOp.raised = "none"
          /\ lastOp.pipe \in testHeld
          /\ lastOp.pipe \notin lastOp.held
          /\ IF lastOp.before # <<>>
             THEN /\ Len(pipe_pool) = Len(lastOp.before) - 1
                  /\ lastOp.before = Append(pipe_pool, lastOp.pipe)
             ELSE /\ pipe_pool = <<>>
                  /\ lastOp.pipe = lastOp.fresh
                  /\ nextPipe = lastOp.fresh + 1
    /\ (lastOp.news >= max_pool_size /\ lastOp.disposes = 0) => pipe_pool = <<>>

\* max_pool_size acquisitions were made, the last one from the empty pool
C8_Witness ==
    /\ lastOp.op = "new"
    /\ lastOp.before = <<>>
    /\ lastOp.news > max_pool_size
    /\ lastOp.disposes = 0

(* C9: after a request's handling has finished its pair is back in the pool *)
(* (the pool being below max_pool_size).                                    *)
C9_PairReturned ==
    \A c \in Calls :
        (Finished(c) /\ Len(pipe_pool) < max_pool_size) =>
            \A i \in DOMAIN calls[c].pipes : calls[c].pipes[i] \in Range(pipe_pool)

(* C10: a pair is free or held by one in-flight request: the pool lists no  *)
(* pair twice, no in-flight request holds a pair that is in the pool, and   *)
(* no two in-flight requests or sub-requests hold the same pair.            *)
C10_PairNeverShared ==
    /\ \A i, j \in DOMAIN pipe_pool : i # j => pipe_pool[i] # pipe_pool[j]
    /\ \A c \in Calls : InFlight(c) =>
          \A i \in DOMAIN calls[c].pipes : calls[c].pipes[i] \notin Range(pipe_pool)
    /\ \A c, d \in Calls : (InFlight(c) /\ InFlight(d)) =>
          \A i \in DOMAIN calls[c].pipes, j \in DOMAIN calls[d].pipes :
              (c # d \/ i # j) => calls[c].pipes[i] # calls[d].pipes[j]

\* two fan-outs of two sub-requests each in flight, a pair still in the pool
\* when the second one started
C10_Witness ==
    \E c, d \in Calls :
        /\ c # d
        /\ InFlight(c) /\ InFlight(d)
        /\ calls[c].kind = "chat" /\ Len(calls[c].pipes) = 2
        /\ Len(calls[d].pipes) >= 1
\* whether event k of replica w's log is followed by another
HasNext(w, k) == k + 1 \in DOMAIN log[w]

\* the k-th event of w's log is the call ev
IsEvent(w, k, ev) == k \in DOMAIN log[w] /\ log[w][k].ev = ev

(* C11: in a worker running single_loop, every uid dequeued with its entry  *)
(* in the table is followed by decode_request on the popped payload,        *)
(* predict on decode's result and encode_response on predict's result, in   *)
(* that order and once each, and then by one send of encode's result on the *)
(* popped sender, which so receives exactly that value ({"input": 4} gives  *)
(* 4, 16 and {"output": 16}); the next uid is only dequeued after that.     *)
C11_SingleLoopPipeline ==
    \A w \in Workers : workers[w].loop = "single_loop" =>
        \A k \in DOMAIN log[w] :
            /\ IsEvent(w, k, "get") /\ HasNext(w, k) =>
                  /\ log[w][k + 1].ev \in {"pop", "KeyError"}
                  /\ log[w][k + 1].uid = log[w][k].uid
            /\ IsEvent(w, k, "KeyError") /\ HasNext(w, k) => IsEvent(w, k + 1, "get")
            /\ IsEvent(w, k, "pop") =>
                  \/ IsEvent(w, k + 1, "raise")
                  \/ /\ IsEvent(w, k + 1, "decode_request")
                     /\ log[w][k + 1].arg = log[w][k].arg
                     /\ log[w][k + 1].out = stage_decode(lit_api, log[w][k].arg)
                     /\ \/ IsEvent(w, k + 2, "raise")
                        \/ /\ IsEvent(w, k + 2, "predict")
                           /\ log[w][k + 2].arg = log[w][k + 1].out
                           /\ log[w][k + 2].out = stage_predict(lit_api, log[w][k + 1].out)
                           /\ IsEvent(w, k + 3, "encode_response")
                           /\ log[w][k + 3].arg = log[w][k + 2].out
                           /\ log[w][k + 3].out = stage_encode(lit_api, log[w][k + 2].out)
                           /\ (lit_api = "simple" /\ log[w][k].arg = [input |-> 4]) =>
                                 /\ log[w][k + 1].out = 4
                                 /\ log[w][k + 2].out = 16
                                 /\ log[w][k + 3].out = [output |-> 16]
                           /\ HasNext(w, k + 3) =>
                                 /\ IsEvent(w, k + 4, "send")
                                 /\ log[w][k + 4].arg = log[w][k].out
                                 /\ log[w][k + 4].out = log[w][k + 3].out
                                 /\ channel[log[w][k].out] = <<log[w][k + 3].out>>
                                 /\ HasNext(w, k + 4) => IsEvent(w, k + 5, "get")
            /\ \A j \in DOMAIN log[w] :
                  (log[w][j].ev = log[w][k].ev /\ log[w][k].ev # "setup"
                   /\ log[w][j].uid = log[w][k].uid /\ log[w][k].uid # 0) => j = k

\* one replica skipped an uid without entry and then served {"input": 4} and
\* {"input": 5} in the order it dequeued them
C11_Witness ==
    \E w \in Workers : \E a, b, c \in DOMAIN log[w] :
        /\ workers[w].loop = "single_loop" /\ lit_api = "simple"
        /\ a < b /\ b < c
        /\ log[w][a].ev = "KeyError"
        /\ log[w][b].ev = "send" /\ log[w][b].out = [output |-> 16]
        /\ log[w][c].ev = "send" /\ log[w][c].out = [output |-> 25]
        /\ channel[log[w][b].arg] = <<[output |-> 16]>>
        /\ channel[log[w][c].arg] = <<[output |-> 25]>>
IsPop(e) == e.ev = "pop"

IsDecode(e) == e.ev = "decode_request"

\* the index of the last batch call before event k of replica w's log (0: none)
PrevBatch(w, k) ==
    LET before == {j \in 1..(k - 1) : log[w][j].ev = "batch"} IN
    IF before = {} THEN 0 ELSE CHOOSE j \in before : \A i \in before : i <= j

\* the events of the collection cycle that ends with the batch call at index k
CycleOf(w, k) == SubSeq(log[w], PrevBatch(w, k) + 1, k - 1)

(* C12: in a worker running batched_loop, the entries popped in one         *)
(* collection cycle are decoded and combined, in collection order, into one *)
(* batch; predict is called once on it; the i-th output of unbatch is       *)
(* encoded on its own and sent on the sender popped with the i-th entry,    *)
(* which so receives the encoded prediction of that entry's payload, uids   *)
(* without entry being skipped (inputs 4 and 5 give 16 and 25).             *)
C12_BatchedLoopPipeline ==
    \A w \in Workers : workers[w].loop = "batched_loop" =>
        \A k \in DOMAIN log[w] : log[w][k].ev = "batch" =>
            LET pops == SelectSeq(CycleOf(w, k), IsPop)
                decs == SelectSeq(CycleOf(w, k), IsDecode)
                n == Len(pops) IN
            /\ Len(decs) = n
            /\ \A i \in 1..n : /\ decs[i].uid = pops[i].uid
                               /\ decs[i].arg = pops[i].arg
                               /\ decs[i].out = stage_decode(lit_api, pops[i].arg)
            /\ log[w][k].arg = [i \in 1..n |-> decs[i].out]
            /\ \/ IsEvent(w, k + 1, "raise")
               \/ /\ IsEvent(w, k + 1, "predict")
                  /\ log[w][k + 1].arg = log[w][k].out
                  /\ IsEvent(w, k + 2, "unbatch")
                  /\ log[w][k + 2].arg = log[w][k + 1].out
                  /\ Len(log[w][k + 2].out) = n
                  /\ (lit_api = "simple" /\ log[w][k].arg = <<4, 5>>) =>
                         log[w][k + 2].out = <<16, 25>>
                  /\ \A i \in 1..n : HasNext(w, k + 2 * i) =>
                        /\ IsEvent(w, k + 2 * i + 1, "encode_response")
                        /\ log[w][k + 2 * i + 1].arg = log[w][k + 2].out[i]
                        /\ log[w][k + 2 * i + 1].out
                              = stage_encode(lit_api, log[w][k + 2].out[i])
                        /\ IsEvent(w, k + 2 * i + 2, "send")
                        /\ log[w][k + 2 * i + 2].arg = pops[i].out
                        /\ log[w][k + 2 * i + 2].out = log[w][k + 2 * i + 1].out
                        /\ channel[pops[i].out] = <<OwnResult(pops[i].arg)>>
                  /\ \A j \in (k + 2)..(k + 2 + 2 * n) : ~IsEvent(w, j, "predict")
                  /\ HasNext(w, k + 2 + 2 * n) => IsEvent(w, k + 3 + 2 * n, "get")

\* one replica batched {"input": 4} and {"input": 5} and answered 16 and 25 on
\* their two senders, and in another cycle skipped an uid without entry and
\* served the entry collected after it
C12_Witness ==
    \E w \in Workers : \E k, a \in DOMAIN log[w] :
        /\ workers[w].loop = "batched_loop" /\ lit_api = "simple"
        /\ log[w][k].ev = "batch" /\ log[w][k].arg = <<4, 5>>
        /\ IsEvent(w, k + 4, "send") /\ log[w][k + 4].out = [output |-> 16]
        /\ IsEvent(w, k + 6, "send") /\ log[w][k + 6].out = [output |-> 25]
        /\ log[w][k + 4].arg # log[w][k + 6].arg
        /\ channel[log[w][k + 4].arg] = <<[output |-> 16]>>
        /\ channel[log[w][k + 6].arg] = <<[output |-> 25]>>
        /\ log[w][a].ev = "KeyError"
        /\ IsEvent(w, a + 2, "pop") /\ IsEvent(w, a + 4, "batch")
        /\ IsEvent(w, a + 8, "send")
        /\ channel[log[w][a + 2].out] = <<log[w][a + 8].out>>
\* how many times uid u was put on the queue: once for each place it is in the
\* queue and each get that returned it
Enqueues(u) ==
    Cardinality({k \in DOMAIN request_queue : request_queue[k] = u})
    + Cardinality(UNION {{<<w, k>> : k \in {j \in DOMAIN log[w] :
                                log[w][j].ev = "get" /\ log[w][j].uid = u}} :
                         w \in Workers})

\* the values the workers sent for uid u
RepliesFor(u) ==
    UNION {{log[w][k].out : k \in {j \in DOMAIN log[w] :
                                log[w][j].ev = "send" /\ log[w][j].uid = u}} :
           w \in Workers}

(* C13: a supported chat request of n completions that has dispatched has n *)
(* distinct uids and n distinct pairs, each uid put on the queue once and   *)
(* inserted with the request and its own sender; its 200 response has n     *)
(* choices, choice i (index i - 1) carrying the text of the reply sent for  *)
(* the i-th uid, and usage being the field-by-field sum of the replies'     *)
(* usage, a reply without usage counting as zero (a with total 3 and b with *)
(* total 2 give 0:a, 1:b and total 5).                                      *)
C13_FanOutAggregates ==
    \A c \in Calls : (calls[c].kind = "chat" /\ chat_rejects(calls[c].payload) = "") =>
        LET n == calls[c].n
            uids == calls[c].uids
            pipes == calls[c].pipes IN
        /\ calls[c].pc \in {"wait", "poll", "responded"} =>
              /\ Len(uids) = n /\ Len(pipes) = n
              /\ \A i, j \in 1..n : i # j => uids[i] # uids[j] /\ pipes[i] # pipes[j]
              /\ \A i \in 1..n :
                    /\ Enqueues(uids[i]) = 1
                    /\ \/ /\ uids[i] \in DOMAIN request_buffer
                          /\ request_buffer[uids[i]]
                                = [x_enc |-> calls[c].payload, pipe_s |-> pipes[i]]
                       \/ Len(took[uids[i]]) = 1
        /\ calls[c].result.status_code = 200 =>
              LET body == calls[c].result.body IN
              /\ Len(body.choices) = n
              /\ \A i \in 1..n :
                    /\ body.choices[i].index = i - 1
                    /\ RepliesFor(uids[i]) = {calls[c].responses[i]}
                    /\ body.choices[i].content = calls[c].responses[i].text
              /\ body.usage = usage_sum(calls[c].responses, n)
              /\ (n = 2 /\ body.choices[1].content = "a"
                        /\ body.choices[2].content = "b") =>
                    body.usage = [prompt_tokens |-> 2, completion_tokens |-> 3,
                                  total_tokens |-> 5]
              /\ (\A i \in 1..n : body.choices[i].content = "c") =>
                    body.usage = [prompt_tokens |-> 0, completion_tokens |-> 0,
                                  total_tokens |-> 0]

\* a request with n = 2 whose sub-requests were served by different replicas,
\* answered with a, b and total 5
C13_Witness ==
    \E c \in Calls :
        /\ calls[c].kind = "chat" /\ calls[c].n = 2
        /\ calls[c].result.status_code = 200
        /\ calls[c].result.body.choices[1].content = "a"
        /\ calls[c].result.body.choices[2].content = "b"
        /\ calls[c].result.body.usage.total_tokens = 5
        /\ took[calls[c].uids[1]] = <<2>>
        /\ took[calls[c].uids[2]] = <<1>>
(* C14: a chat request that sets stream, stop, frequency_penalty,           *)
(* presence_penalty, max_tokens or a top_p other than 1.0 is answered with  *)
(* status 400 in the step that accepts it: that step mints no uid, draws no *)
(* pair, inserts and enqueues nothing and leaves no cleanup task, so the    *)
(* queue, the table and the pool are unchanged, and the request never has   *)
(* an uid or a pair.                                                        *)
C14_UnsupportedRejected ==
    /\ [](\A c \in Calls :
            (calls[c].kind = "chat" /\ chat_rejects(calls[c].payload) # "") =>
                /\ calls[c].result.status_code = 400
                /\ calls[c].uids = <<>> /\ calls[c].pipes = <<>>
                /\ calls[c].tasks = <<>>)
    /\ [][\A c \in Calls :
            (calls[c].pc = "idle" /\ calls'[c].kind = "chat"
             /\ calls'[c].payload \in UnsupportedRequests) =>
                /\ calls'[c].result
                      = HTTPException(400, chat_rejects(calls'[c].payload))
                /\ request_queue' = request_queue
                /\ request_buffer' = request_buffer
                /\ pipe_pool' = pipe_pool
                /\ nextUid' = nextUid /\ nextPipe' = nextPipe]_vars

\* a request with top_p = 0.9 was rejected while another request was dispatched
\* and waiting
C14_Witness ==
    \E c, d \in Calls :
        /\ calls[c].kind = "chat" /\ calls[c].payload.top_p = 9
        /\ calls[c].result = HTTPException(400, "Parameter top_p not currently supported")
        /\ calls[d].kind = "chat" /\ calls[d].pc = "wait"
        /\ request_queue # <<>>
(* C15: a worker running batched_loop calls batch and predict only on 1 to  *)
(* max_batch_size decoded inputs: a collection cycle makes at most          *)
(* max_batch_size reads of the queue, a read is only made while fewer were  *)
(* made and the queue has an item, the collection ends before               *)
(* max_batch_size reads only on an empty queue, and a cycle that collected  *)
(* nothing restarts without a call of any stage and without a send.         *)
C15_BatchSizeBounded ==
    /\ [](\A w \in Workers : workers[w].loop = "batched_loop" =>
            /\ workers[w].pc \in {"get", "take"} =>
                  /\ workers[w].i <= max_batch_size
                  /\ Len(workers[w].inputs) <= workers[w].i
            /\ workers[w].pc = "send" =>
                  /\ Len(workers[w].inputs) >= 1
                  /\ Len(workers[w].inputs) <= max_batch_size
            /\ \A k \in DOMAIN log[w] : log[w][k].ev \in {"batch", "predict"} =>
                  /\ Len(log[w][k].arg) >= 1
                  /\ Len(log[w][k].arg) <= max_batch_size)
    /\ [][\A w \in Workers :
            (workers[w].loop = "batched_loop" /\ workers[w].pc = "get"
             /\ workers'[w] # workers[w]) =>
                IF workers'[w].pc = "take"
                THEN workers[w].i < max_batch_size /\ request_queue # <<>>
                ELSE /\ workers[w].i = max_batch_size \/ request_queue = <<>>
                     /\ workers[w].inputs = <<>> =>
                           /\ workers'[w].pc = "get" /\ workers'[w].i = 0
                           /\ log' = log /\ channel' = channel
                           /\ nSends' = nSends]_vars

\* a replica made one batch of max_batch_size inputs and one of a single input
\* and is collecting again
C15_Witness ==
    \E w \in Workers : \E k, j \in DOMAIN log[w] :
        /\ workers[w].loop = "batched_loop"
        /\ log[w][k].ev = "batch" /\ Len(log[w][k].arg) = max_batch_size
        /\ log[w][j].ev = "batch" /\ Len(log[w][j].arg) = 1
        /\ workers[w].pc = "get" /\ workers[w].i = 0 /\ workers[w].inputs = <<>>
\* the send step of replica w, and the step that reads the queue or ends a
\* collection
SendStep(w) == SingleSend(w) \/ BatchSend(w)

GetStep(w) == SingleGet(w) \/ BatchGet(w) \/ BatchPredict(w)

(* C16: a caller that stopped waiting stops no worker: a replica that took  *)
(* an entry can always make its send, also when the receiver is gone; such  *)
(* a send changes no channel and leaves the replica running, in             *)
(* batched_loop with the next sender of the batch, else in its next cycle,  *)
(* where it can read the queue again.                                       *)
C16_TimeoutDoesNotStopWorker ==
    /\ [](\A w \in Workers :
            /\ workers[w].pc = "send" => ENABLED SendStep(w)
            /\ (workers[w].pc = "get" /\ request_queue # <<>>) => ENABLED GetStep(w))
    /\ [][\A w \in Workers :
            (workers[w].pc = "send" /\ workers'[w] # workers[w]
             /\ workers[w].pipes[IF workers[w].loop = "batched_loop"
                                 THEN workers[w].i ELSE 1] \in closed) =>
                LET j == IF workers[w].loop = "batched_loop" THEN workers[w].i ELSE 1
                    p == workers[w].pipes[j] IN
                /\ nSends'[p] = nSends[p] + 1
                /\ channel' = channel
                /\ IF workers[w].loop = "batched_loop" /\ j < Len(workers[w].pipes)
                   THEN /\ workers'[w].pc = "send" /\ workers'[w].i = j + 1
                        /\ workers'[w].pipes = workers[w].pipes
                   ELSE workers'[w].pc = "get"]_vars

\* a replica sent the reply of a request whose caller had timed out, and then
\* served a second request, whose caller got its reply
C16_Witness ==
    \E c, d \in Calls : \E w \in Workers :
        /\ calls[c].kind = "predict" /\ calls[d].kind = "predict"
        /\ calls[c].result = HTTPException(504, "Request timed out")
        /\ took[calls[c].uids[1]] = <<w>>
        /\ nSends[calls[c].pipes[1]] = 1
        /\ channel[calls[c].pipes[1]] = <<>>
        /\ took[calls[d].uids[1]] = <<w>>
        /\ calls[d].result.status_code = 200
        /\ \E k, j \in DOMAIN log[w] :
              /\ k < j
              /\ log[w][k].ev = "send" /\ log[w][k].arg = calls[c].pipes[1]
              /\ log[w][j].ev = "send" /\ log[w][j].arg = calls[d].pipes[1]
\* the senders replica w popped and has not sent on
Unsent(w) ==
    {log[w][k].out : k \in {j \in DOMAIN log[w] :
        /\ log[w][j].ev = "pop"
        /\ \A i \in DOMAIN log[w] :
              ~(i > j /\ log[w][i].ev = "send" /\ log[w][i].arg = log[w][j].out)}}

C18_FanOutTimeoutIs504 ==
    \A c \in Calls :
        (/\ calls[c].kind = "chat" /\ calls[c].pc = "responded"
         /\ \E i \in DOMAIN calls[c].responses : IsHTTPException(calls[c].responses[i]))
            => calls[c].result = HTTPException(504, "Request timed out")

\* events only batched_loop logs, and events only single_loop logs
OnlyBatched(e) == e.ev \in {"batch", "unbatch"}

IsSetup(e) == e.ev = "setup"

IsLoopEntry(e) == e.ev \in {"single_loop", "batched_loop"}

(* C19: a replica that did anything first ran setup, once, and then entered *)
(* one loop, once: batched_loop when max_batch_size > 1 and single_loop     *)
(* otherwise; everything it dequeues it dequeues after that, it only ever   *)
(* takes steps of the loop it entered, and the loop it is in never changes. *)
C19_SetupOnceOneLoop ==
    /\ [](\A w \in Workers :
            /\ workers[w].pc = "setup" => log[w] = <<>> /\ workers[w].loop = "none"
            /\ workers[w].pc # "setup" =>
                  /\ Len(log[w]) >= 2
                  /\ log[w][1].ev = "setup"
                  /\ log[w][2].ev = workers[w].loop
                  /\ workers[w].loop = IF max_batch_size > 1 THEN "batched_loop"
                                       ELSE "single_loop"
                  /\ max_batch_size = 1 => workers[w].loop = "single_loop"
                  /\ Len(SelectSeq(log[w], IsSetup)) = 1
                  /\ Len(SelectSeq(log[w], IsLoopEntry)) = 1
                  /\ workers[w].loop = "single_loop" =>
                        /\ SelectSeq(log[w], OnlyBatched) = <<>>
                        /\ ~ENABLED (BatchGet(w) \/ BatchTake(w) \/ BatchPredict(w)
                                     \/ BatchSend(w))
                  /\ workers[w].loop = "batched_loop" =>
                        ~ENABLED (SingleGet(w) \/ SingleTake(w) \/ SingleSend(w)))
    /\ [][\A w \in Workers :
            workers[w].loop # "none" => workers'[w].loop = workers[w].loop]_vars

\* with max_batch_size = 2 a second replica is not yet set up while the first,
\* set up once, has served a batch
C19_Witness ==
    \E w, v \in Workers :
        /\ max_batch_size = 2 /\ replicas = 2
        /\ workers[v].pc = "setup"
        /\ workers[w].loop = "batched_loop"
        /\ \E k \in DOMAIN log[w] : log[w][k].ev = "send"

\* the call and position of uid u in its request
CallerOf(u) == {c \in Calls : \E i \in DOMAIN calls[c].uids : calls[c].uids[i] = u}

Dequeued(u) == \E w \in Workers : workers[w].pc = "take" /\ workers[w].uid = u

OnQueue(u) == \E k \in DOMAIN request_queue : request_queue[k] = u

(* C20: the entry of an uid is inserted before the uid is put on the queue  *)
(* and cleanup of an uid runs only when the handler has stopped waiting: an *)
(* uid that is on the queue, or was just dequeued, while its caller still   *)
(* waits has its entry in the table, no worker ever found the key of such   *)
(* an uid absent, and cleanup has popped no uid of a caller still waiting.  *)
C20_InsertBeforeEnqueue ==
    \A u \in Minted : \A c \in CallerOf(u) : InFlight(c) =>
        /\ (OnQueue(u) \/ Dequeued(u)) =>
              /\ u \in DOMAIN request_buffer
              /\ took[u] = <<>>
        /\ missed[u] = {}
        /\ SelectSeq(took[u], IsWorker) = took[u]

\* a worker has just dequeued the uid of a request whose caller is waiting in
\* get_from_pipe, and the entry is there for it to pop
C20_Witness ==
    \E u \in Minted : \E c \in CallerOf(u) :
        /\ calls[c].pc = "poll"
        /\ Dequeued(u)
        /\ u \in DOMAIN request_buffer
====
